---- MODULE Spec2Model ----
(***************************************************************************)
(* Model of engine.go: the Engine registry (clients map guarded by the     *)
(* embedded sync.RWMutex), its mutators AddClient / DelClient /            *)
(* RemoveClient / GetStat run by concurrent callers, and the Stats loop.   *)
(***************************************************************************)
EXTENDS Integers, Sequences, FiniteSets, TLC

\* ------------------------------------------------------------------ universe
\* Caller goroutines that invoke the registry's mutators.
Procs == {"p1", "p2"}

\* Client handles (*Client values).  c1 and c4 are two different handles that
\* carry the same (sid, uid) key.
Handles == {"c1", "c2", "c3", "c4"}

\* The nil *Client.
Nil == "nil"

\* Client.sid of each handle.
SidOf == [c1 |-> "A", c2 |-> "A", c3 |-> "B", c4 |-> "A"]

\* Client.uid of each handle.
UidOf == [c1 |-> "u1", c2 |-> "u2", c3 |-> "u1", c4 |-> "u1"]

Keys == {<<SidOf[h], UidOf[h]>> : h \in Handles}
KeyOf(h) == <<SidOf[h], UidOf[h]>>

\* The cycle argument of Stats, passed on to getBandWidth as the interval.
Cycle == "cycle"

\* Values (recvBW, sendBW) that a getBandWidth call may return.
SampleSet == {<<0, 0>>, <<10, 5>>, <<20, 15>>}

NoProc == "none"
NoReport == [clients |-> -1, recv |-> -1, send |-> -1]

\* ------------------------------------------------------------------- state
VARIABLES
    clients,      \* e.clients: session -> (uid -> handle)
    writer,       \* holder of the exclusive side of the RWMutex, or NoProc
    readers,      \* number of holders of the shared side of the RWMutex
    pc,           \* position of every caller goroutine
    op,           \* the mutator a caller is running / has last run
    arg,          \* its argument c
    found,        \* the inner c of "if c, ok := ..." (the stored client)
    ret,          \* the value the last call returned ("panic": it panicked)
    spc,          \* position of the goroutine running Stats
    cancelled,    \* whether the close channel is ready (signal raised)
    n,            \* Stats: n
    totalRecvBW,  \* Stats: totalRecvBW
    totalSendBW,  \* Stats: totalSendBW
    todoS,        \* Stats: sessions the outer range has not visited yet
    curS,         \* Stats: session the outer range is at
    todoC,        \* Stats: uids the inner range has not visited yet
    curC,         \* Stats: client whose getBandWidth is executing
    report,       \* Stats: the numbers formatted into info
    owed,         \* history: removals of a handle by DelClient minus Close calls on it
    prev,         \* history: what the key held just before the caller's store
    shadow,       \* history: key -> handle, the registry as the calls define it
    view,         \* history: e.clients as it was when Stats took the read lock
    sampled,      \* history: <<interval, recv, send>> of every call in this cycle, per handle
    stats,        \* e.stats: the snapshot GetStat reads
    ended,        \* history: how the iteration of Stats that just finished ended
    got           \* per caller: the values its last GetStat returned

regVars == <<clients, writer, readers>>
procVars == <<pc, op, arg, found, ret>>
statVars == <<spc, cancelled, n, totalRecvBW, totalSendBW, todoS, curS, todoC, curC, report>>
histVars == <<owed, prev, shadow, view, sampled>>
vars == <<regVars, procVars, statVars, histVars, stats, ended, got>>

\* ----------------------------------------------------------------- helpers
EmptyMap == [x \in {} |-> Nil]
NoSamples == [h \in Handles |-> <<>>]

\* e.clients[sid] == nil
NoSession(m, sid) == sid \notin DOMAIN m

\* v, ok := e.clients[sid][uid]; the zero value is nil
Lookup(m, sid, uid) ==
    IF sid \in DOMAIN m /\ uid \in DOMAIN m[sid] THEN m[sid][uid] ELSE Nil

\* A variant of EnsureSession that makes a new inner map every time.
EnsureSessionFresh(m, sid) ==
    [s \in DOMAIN m \cup {sid} |-> IF s = sid THEN EmptyMap ELSE m[s]]

\* if e.clients[sid] == nil { e.clients[sid] = make(map[string]*Client) }
EnsureSession(m, sid) ==
    IF NoSession(m, sid)
    THEN [s \in DOMAIN m \cup {sid} |-> IF s = sid THEN EmptyMap ELSE m[s]]
    ELSE m

\* e.clients[sid][uid] = c
StoreClient(m, sid, uid, c) ==
    [m EXCEPT ![sid] = [u \in DOMAIN m[sid] \cup {uid} |->
                           IF u = uid THEN c ELSE m[sid][u]]]

\* A variant of DeleteClient that drops a session whose last client it removed.
DeleteClientCleaning(m, sid, uid) ==
    IF DOMAIN m[sid] \ {uid} = {}
    THEN [s \in DOMAIN m \ {sid} |-> m[s]]
    ELSE [m EXCEPT ![sid] = [u \in DOMAIN m[sid] \ {uid} |-> m[sid][u]]]

\* delete(e.clients[sid], uid)
DeleteClient(m, sid, uid) ==
    [m EXCEPT ![sid] = [u \in DOMAIN m[sid] \ {uid} |-> m[sid][u]]]

RECURSIVE SumLenOver(_, _)
SumLenOver(m, S) ==
    IF S = {} THEN 0
    ELSE LET s == CHOOSE x \in S : TRUE
         IN Cardinality(DOMAIN m[s]) + SumLenOver(m, S \ {s})

\* A variant of TotalClients that counts the sessions.
TotalClientsBySession(m) == Cardinality(DOMAIN m)

\* n := 0; for _, m := range e.clients { n += len(m) }
TotalClients(m) == SumLenOver(m, DOMAIN m)

LockFree == writer = NoProc /\ readers = 0

\* -------------------------------------------------------------------- Init
\* NewEngine: an empty clients map, an unlocked mutex; nobody is running.
Init ==
    /\ clients = EmptyMap
    /\ writer = NoProc
    /\ readers = 0
    /\ pc = [p \in Procs |-> "idle"]
    /\ op = [p \in Procs |-> "none"]
    /\ arg = [p \in Procs |-> Nil]
    /\ found = [p \in Procs |-> Nil]
    /\ ret = [p \in Procs |-> "none"]
    /\ spc = "s_select"
    /\ cancelled = FALSE
    /\ n = 0
    /\ totalRecvBW = 0
    /\ totalSendBW = 0
    /\ todoS = {}
    /\ curS = "none"
    /\ todoC = {}
    /\ curC = Nil
    /\ report = NoReport
    /\ owed = [h \in Handles |-> 0]
    /\ prev = [p \in Procs |-> Nil]
    /\ shadow = [k \in Keys |-> Nil]
    /\ view = EmptyMap
    /\ sampled = NoSamples
    /\ stats = [clients |-> 0, recv |-> 0, send |-> 0]
    /\ ended = "none"
    /\ got = [p \in Procs |-> [clients |-> 0, recv |-> 0, send |-> 0]]

\* A caller enters mutator o with argument c.  The first statement of every
\* mutator is e.Lock(), and a caller blocked in it has done nothing yet, so the
\* call is entered at the moment the exclusive lock is granted.  DelClient and
\* RemoveClient are given client handles; only AddClient provides for nil.
Enter(p, o, c, next) ==
    /\ pc[p] = "idle"
    /\ LockFree
    /\ writer' = p
    /\ op' = [op EXCEPT ![p] = o]
    /\ arg' = [arg EXCEPT ![p] = c]
    /\ ret' = [ret EXCEPT ![p] = "none"]
    /\ pc' = [pc EXCEPT ![p] = next]
    /\ UNCHANGED <<clients, readers, found, statVars, histVars>>
    /\ UNCHANGED <<stats, ended, got>>

\* The caller's call returns r; its locals are gone.
Leave(p, r) ==
    /\ ret' = [ret EXCEPT ![p] = r]
    /\ arg' = [arg EXCEPT ![p] = Nil]
    /\ found' = [found EXCEPT ![p] = Nil]
    /\ prev' = [prev EXCEPT ![p] = Nil]
    /\ pc' = [pc EXCEPT ![p] = "idle"]

\* --------------------------------------------------------------- AddClient
\* e.Lock() (defer e.Unlock() is registered here)
ALock(p) == \E c \in Handles \cup {Nil} : Enter(p, "Add", c, "a_check")

\* if e.clients[c.sid] == nil { ... }: evaluating c.sid on a nil c panics.
ACheck(p) ==
    /\ pc[p] = "a_check"
    /\ IF arg[p] = Nil
       THEN /\ ret' = [ret EXCEPT ![p] = "panic"]
            /\ pc' = [pc EXCEPT ![p] = "a_defer"]
            /\ UNCHANGED clients
       ELSE /\ clients' = EnsureSession(clients, SidOf[arg[p]])
            /\ pc' = [pc EXCEPT ![p] = "a_store"]
            /\ UNCHANGED ret
    /\ UNCHANGED <<writer, readers, op, arg, found, statVars, histVars>>
    /\ UNCHANGED <<stats, ended, got>>

\* A variant of AStore that tears down the client it overwrites.
AStoreClosingOld(p) ==
    /\ pc[p] = "a_store"
    /\ LET c == arg[p]
           old == Lookup(clients, SidOf[c], UidOf[c])
       IN /\ clients' = StoreClient(clients, SidOf[c], UidOf[c], c)
          /\ prev' = [prev EXCEPT ![p] = old]
          /\ shadow' = [shadow EXCEPT ![KeyOf(c)] = c]
          /\ owed' = IF old \in {Nil, c} THEN owed ELSE [owed EXCEPT ![old] = @ - 1]
          /\ ret' = [ret EXCEPT ![p] = IF c = Nil THEN "errNil" ELSE "nil"]
    /\ pc' = [pc EXCEPT ![p] = "a_defer"]
    /\ UNCHANGED <<writer, readers, op, arg, found, statVars, view, sampled>>
    /\ UNCHANGED <<stats, ended, got>>

\* e.clients[c.sid][c.uid] = c; if c == nil { return err }; return nil
AStore(p) ==
    /\ pc[p] = "a_store"
    /\ LET c == arg[p]
           old == Lookup(clients, SidOf[c], UidOf[c])
       IN /\ clients' = StoreClient(clients, SidOf[c], UidOf[c], c)
          /\ prev' = [prev EXCEPT ![p] = old]
          /\ shadow' = [shadow EXCEPT ![KeyOf(c)] = c]
          /\ ret' = [ret EXCEPT ![p] = IF c = Nil THEN "errNil" ELSE "nil"]
    /\ pc' = [pc EXCEPT ![p] = "a_defer"]
    /\ UNCHANGED <<writer, readers, op, arg, found, statVars, owed, view, sampled>>
    /\ UNCHANGED <<stats, ended, got>>

\* the deferred e.Unlock(), run on return and on panic alike
ADefer(p) ==
    /\ pc[p] = "a_defer"
    /\ writer' = NoProc
    /\ Leave(p, ret[p])
    /\ UNCHANGED <<clients, readers, op, statVars, owed, shadow, view, sampled>>
    /\ UNCHANGED <<stats, ended, got>>

\* --------------------------------------------------------------- DelClient
\* e.Lock()
DLock(p) == \E c \in Handles : Enter(p, "Del", c, "d_check")

\* A variant of DCheck that creates the session it did not find.
DCheckCreating(p) ==
    /\ pc[p] = "d_check"
    /\ IF NoSession(clients, SidOf[arg[p]])
       THEN /\ clients' = EnsureSession(clients, SidOf[arg[p]])
            /\ writer' = NoProc
            /\ Leave(p, "errInvalidSessID")
       ELSE /\ pc' = [pc EXCEPT ![p] = "d_lookup"]
            /\ UNCHANGED <<clients, writer, arg, found, ret, prev>>
    /\ UNCHANGED <<readers, op, statVars, owed, shadow, view, sampled>>
    /\ UNCHANGED <<stats, ended, got>>

\* A variant of DCheck that returns the error without unlocking.
DCheckNoUnlock(p) ==
    /\ pc[p] = "d_check"
    /\ IF NoSession(clients, SidOf[arg[p]])
       THEN Leave(p, "errInvalidSessID")
       ELSE /\ pc' = [pc EXCEPT ![p] = "d_lookup"]
            /\ UNCHANGED <<arg, found, ret, prev>>
    /\ UNCHANGED <<regVars, op, statVars, owed, shadow, view, sampled>>
    /\ UNCHANGED <<stats, ended, got>>

\* if e.clients[c.sid] == nil { e.Unlock(); return errInvalidSessID }
DCheck(p) ==
    /\ pc[p] = "d_check"
    /\ IF NoSession(clients, SidOf[arg[p]])
       THEN /\ writer' = NoProc
            /\ Leave(p, "errInvalidSessID")
       ELSE /\ pc' = [pc EXCEPT ![p] = "d_lookup"]
            /\ UNCHANGED <<writer, arg, found, ret, prev>>
    /\ UNCHANGED <<clients, readers, op, statVars, owed, shadow, view, sampled>>
    /\ UNCHANGED <<stats, ended, got>>

\* A variant of DLookup that leaves the entry in the map.
DLookupKeeping(p) ==
    /\ pc[p] = "d_lookup"
    /\ LET c == Lookup(clients, SidOf[arg[p]], UidOf[arg[p]])
       IN IF c # Nil
          THEN /\ found' = [found EXCEPT ![p] = c]
               /\ pc' = [pc EXCEPT ![p] = "d_unlock"]
               /\ UNCHANGED <<clients, writer, arg, ret, prev, owed, shadow>>
          ELSE /\ writer' = NoProc
               /\ Leave(p, "nil")
               /\ UNCHANGED <<clients, owed, shadow>>
    /\ UNCHANGED <<readers, op, statVars, view, sampled>>
    /\ UNCHANGED <<stats, ended, got>>

\* A variant of DLookup that reports a client it does not find as an error.
DLookupErr(p) ==
    /\ pc[p] = "d_lookup"
    /\ LET c == Lookup(clients, SidOf[arg[p]], UidOf[arg[p]])
       IN IF c # Nil
          THEN /\ found' = [found EXCEPT ![p] = c]
               /\ clients' = DeleteClient(clients, SidOf[c], UidOf[c])
               /\ owed' = [owed EXCEPT ![c] = @ + 1]
               /\ shadow' = [shadow EXCEPT ![KeyOf(c)] = Nil]
               /\ pc' = [pc EXCEPT ![p] = "d_unlock"]
               /\ UNCHANGED <<writer, arg, ret, prev>>
          ELSE /\ writer' = NoProc
               /\ Leave(p, "errInvalidSessID")
               /\ UNCHANGED <<clients, owed, shadow>>
    /\ UNCHANGED <<readers, op, statVars, view, sampled>>
    /\ UNCHANGED <<stats, ended, got>>

\* A variant of DLookup that goes on to close its argument, not the client
\* it found.
DLookupArg(p) ==
    /\ pc[p] = "d_lookup"
    /\ LET c == Lookup(clients, SidOf[arg[p]], UidOf[arg[p]])
       IN IF c # Nil
          THEN /\ found' = [found EXCEPT ![p] = arg[p]]
               /\ clients' = DeleteClient(clients, SidOf[c], UidOf[c])
               /\ owed' = [owed EXCEPT ![c] = @ + 1]
               /\ shadow' = [shadow EXCEPT ![KeyOf(c)] = Nil]
               /\ pc' = [pc EXCEPT ![p] = "d_unlock"]
               /\ UNCHANGED <<writer, arg, ret, prev>>
          ELSE /\ writer' = NoProc
               /\ Leave(p, "nil")
               /\ UNCHANGED <<clients, owed, shadow>>
    /\ UNCHANGED <<readers, op, statVars, view, sampled>>
    /\ UNCHANGED <<stats, ended, got>>

\* if c, ok := e.clients[c.sid][c.uid]; ok && (c != nil) {
\*     delete(e.clients[c.sid], c.uid) ... } else { e.Unlock() }; return nil
DLookup(p) ==
    /\ pc[p] = "d_lookup"
    /\ LET c == Lookup(clients, SidOf[arg[p]], UidOf[arg[p]])
       IN IF c # Nil
          THEN /\ found' = [found EXCEPT ![p] = c]
               /\ clients' = DeleteClient(clients, SidOf[c], UidOf[c])
               /\ owed' = [owed EXCEPT ![c] = @ + 1]
               /\ shadow' = [shadow EXCEPT ![KeyOf(c)] = Nil]
               /\ pc' = [pc EXCEPT ![p] = "d_unlock"]
               /\ UNCHANGED <<writer, arg, ret, prev>>
          ELSE /\ writer' = NoProc
               /\ Leave(p, "nil")
               /\ UNCHANGED <<clients, owed, shadow>>
    /\ UNCHANGED <<readers, op, statVars, view, sampled>>
    /\ UNCHANGED <<stats, ended, got>>

\* A variant of DUnlock that goes on to Close without releasing the lock.
DUnlockLate(p) ==
    /\ pc[p] = "d_unlock"
    /\ pc' = [pc EXCEPT ![p] = "d_close"]
    /\ UNCHANGED <<regVars, op, arg, found, ret, statVars, histVars>>
    /\ UNCHANGED <<stats, ended, got>>

\* e.Unlock() on the found path
DUnlock(p) ==
    /\ pc[p] = "d_unlock"
    /\ writer' = NoProc
    /\ pc' = [pc EXCEPT ![p] = "d_close"]
    /\ UNCHANGED <<clients, readers, op, arg, found, ret, statVars, histVars>>
    /\ UNCHANGED <<stats, ended, got>>

\* c.Close() on the stored client; return nil
DClose(p) ==
    /\ pc[p] = "d_close"
    /\ owed' = [owed EXCEPT ![found[p]] = @ - 1]
    /\ Leave(p, "nil")
    /\ UNCHANGED <<regVars, op, statVars, shadow, view, sampled>>
    /\ UNCHANGED <<stats, ended, got>>

\* ------------------------------------------------------------ RemoveClient
\* e.Lock(); defer e.Unlock()
RmLock(p) == \E c \in Handles : Enter(p, "Remove", c, "r_check")

\* if e.clients[c.sid] == nil { return errInvalidSessID }
RmCheck(p) ==
    /\ pc[p] = "r_check"
    /\ IF NoSession(clients, SidOf[arg[p]])
       THEN /\ ret' = [ret EXCEPT ![p] = "errInvalidSessID"]
            /\ pc' = [pc EXCEPT ![p] = "r_defer"]
       ELSE /\ pc' = [pc EXCEPT ![p] = "r_lookup"]
            /\ UNCHANGED ret
    /\ UNCHANGED <<regVars, op, arg, found, statVars, histVars>>
    /\ UNCHANGED <<stats, ended, got>>

\* A variant of RmLookup that finds the client and does not delete it.
RmLookupKeeping(p) ==
    /\ pc[p] = "r_lookup"
    /\ LET c == Lookup(clients, SidOf[arg[p]], UidOf[arg[p]])
       IN /\ found' = [found EXCEPT ![p] = c]
          /\ IF c # Nil
             THEN /\ shadow' = [shadow EXCEPT ![KeyOf(c)] = Nil]
                  /\ UNCHANGED clients
             ELSE UNCHANGED <<clients, shadow>>
    /\ ret' = [ret EXCEPT ![p] = "nil"]
    /\ pc' = [pc EXCEPT ![p] = "r_defer"]
    /\ UNCHANGED <<writer, readers, op, arg, statVars, owed, prev, view, sampled>>
    /\ UNCHANGED <<stats, ended, got>>

\* A variant of RmLookup that reports a client it does not find as an error.
RmLookupErr(p) ==
    /\ pc[p] = "r_lookup"
    /\ LET c == Lookup(clients, SidOf[arg[p]], UidOf[arg[p]])
       IN /\ found' = [found EXCEPT ![p] = c]
          /\ IF c # Nil
             THEN /\ clients' = DeleteClient(clients, SidOf[c], UidOf[c])
                  /\ shadow' = [shadow EXCEPT ![KeyOf(c)] = Nil]
             ELSE UNCHANGED <<clients, shadow>>
          /\ ret' = [ret EXCEPT ![p] = IF c # Nil THEN "nil" ELSE "errInvalidSessID"]
    /\ pc' = [pc EXCEPT ![p] = "r_defer"]
    /\ UNCHANGED <<writer, readers, op, arg, statVars, owed, prev, view, sampled>>
    /\ UNCHANGED <<stats, ended, got>>

\* if c, ok := e.clients[c.sid][c.uid]; ok && (c != nil) {
\*     delete(e.clients[c.sid], c.uid) }; return nil
RmLookup(p) ==
    /\ pc[p] = "r_lookup"
    /\ LET c == Lookup(clients, SidOf[arg[p]], UidOf[arg[p]])
       IN /\ found' = [found EXCEPT ![p] = c]
          /\ IF c # Nil
             THEN /\ clients' = DeleteClient(clients, SidOf[c], UidOf[c])
                  /\ shadow' = [shadow EXCEPT ![KeyOf(c)] = Nil]
             ELSE UNCHANGED <<clients, shadow>>
    /\ ret' = [ret EXCEPT ![p] = "nil"]
    /\ pc' = [pc EXCEPT ![p] = "r_defer"]
    /\ UNCHANGED <<writer, readers, op, arg, statVars, owed, prev, view, sampled>>
    /\ UNCHANGED <<stats, ended, got>>

\* the deferred e.Unlock()
RmDefer(p) ==
    /\ pc[p] = "r_defer"
    /\ writer' = NoProc
    /\ Leave(p, ret[p])
    /\ UNCHANGED <<clients, readers, op, statVars, owed, shadow, view, sampled>>
    /\ UNCHANGED <<stats, ended, got>>

\* ----------------------------------------------------------------- GetStat
\* return e.stats.clients, e.stats.totalRecvBW, e.stats.totalSendBW
\* (no lock is taken; nothing in the file assigns e.stats)
GetStat(p) ==
    /\ pc[p] = "idle"
    /\ op' = [op EXCEPT ![p] = "GetStat"]
    /\ ret' = [ret EXCEPT ![p] = "none"]
    /\ got' = [got EXCEPT ![p] = stats]
    /\ UNCHANGED <<regVars, pc, arg, found, statVars, histVars, stats, ended>>

\* ------------------------------------------------------------------- Stats
\* The signal on the close channel is raised (by whoever owns the channel).
Cancel ==
    /\ ~cancelled
    /\ cancelled' = TRUE
    /\ UNCHANGED <<regVars, procVars, histVars, spc, n, totalRecvBW, totalSendBW,
                   todoS, curS, todoC, curC, report>>
    /\ UNCHANGED <<stats, ended, got>>

\* A variant of SSelect that takes the default branch whatever the channel.
SSelectDeaf ==
    /\ spc = "s_select"
    /\ spc' = "s_rlock"
    /\ UNCHANGED <<regVars, procVars, histVars, cancelled, n, totalRecvBW, totalSendBW,
                   todoS, curS, todoC, curC, report>>
    /\ ended' = "none"
    /\ UNCHANGED <<stats, got>>

\* select { case <-close: return ""  default: ... }
SSelect ==
    /\ spc = "s_select"
    /\ spc' = IF cancelled THEN "s_done" ELSE "s_rlock"
    /\ UNCHANGED <<regVars, procVars, histVars, cancelled, n, totalRecvBW, totalSendBW,
                   todoS, curS, todoC, curC, report>>
    /\ ended' = "none"
    /\ UNCHANGED <<stats, got>>

\* A variant of SRLock that goes on without taking the read lock.
SRLockSkipped ==
    /\ spc = "s_rlock"
    /\ view' = clients
    /\ spc' = "s_empty"
    /\ UNCHANGED <<regVars, procVars, cancelled, n, totalRecvBW, totalSendBW,
                   todoS, curS, todoC, curC, report, owed, prev, shadow, sampled>>
    /\ UNCHANGED <<stats, ended, got>>

\* e.RLock()
SRLock ==
    /\ spc = "s_rlock"
    /\ writer = NoProc
    /\ readers' = readers + 1
    /\ view' = clients
    /\ spc' = "s_empty"
    /\ UNCHANGED <<clients, writer, procVars, cancelled, n, totalRecvBW, totalSendBW,
                   todoS, curS, todoC, curC, report, owed, prev, shadow, sampled>>
    /\ UNCHANGED <<stats, ended, got>>

\* A variant of SEmpty that continues without releasing the read lock.
SEmptyNoUnlock ==
    /\ spc = "s_empty"
    /\ IF Cardinality(DOMAIN clients) = 0
       THEN /\ spc' = "s_select"
            /\ ended' = "skip"
       ELSE /\ spc' = "s_count"
            /\ UNCHANGED ended
    /\ UNCHANGED <<regVars, procVars, histVars, cancelled, n, totalRecvBW,
                   totalSendBW, todoS, curS, todoC, curC, report>>
    /\ UNCHANGED <<stats, got>>

\* A variant of SEmpty that skips when the registry holds no client.
SEmptyByClients ==
    /\ spc = "s_empty"
    /\ IF TotalClients(clients) = 0
       THEN /\ readers' = readers - 1
            /\ spc' = "s_select"
            /\ ended' = "skip"
       ELSE /\ spc' = "s_count"
            /\ UNCHANGED <<readers, ended>>
    /\ UNCHANGED <<clients, writer, procVars, histVars, cancelled, n, totalRecvBW,
                   totalSendBW, todoS, curS, todoC, curC, report>>
    /\ UNCHANGED <<stats, got>>

\* if len(e.clients) == 0 { e.RUnlock(); continue }
SEmpty ==
    /\ spc = "s_empty"
    /\ IF Cardinality(DOMAIN clients) = 0
       THEN /\ readers' = readers - 1
            /\ spc' = "s_select"
            /\ ended' = "skip"
       ELSE /\ spc' = "s_count"
            /\ UNCHANGED <<readers, ended>>
    /\ UNCHANGED <<clients, writer, procVars, histVars, cancelled, n, totalRecvBW,
                   totalSendBW, todoS, curS, todoC, curC, report>>
    /\ UNCHANGED <<stats, got>>

\* n := 0; for ... { n += len(m) }; totalRecvBW, totalSendBW := 0, 0
SCount ==
    /\ spc = "s_count"
    /\ n' = TotalClients(clients)
    /\ totalRecvBW' = 0
    /\ totalSendBW' = 0
    /\ todoS' = DOMAIN clients
    /\ todoC' = {}
    /\ spc' = "s_range"
    /\ UNCHANGED <<regVars, procVars, histVars, cancelled, curS, curC, report>>
    /\ UNCHANGED <<stats, ended, got>>

\* for _, m := range e.clients: the outer range moves to a next session
SRangeSession ==
    /\ spc = "s_range"
    /\ todoC = {}
    /\ \E s \in todoS :
          /\ curS' = s
          /\ todoS' = todoS \ {s}
          /\ todoC' = DOMAIN clients[s]
    /\ UNCHANGED <<regVars, procVars, histVars, spc, cancelled, n, totalRecvBW,
                   totalSendBW, curC, report>>
    /\ UNCHANGED <<stats, ended, got>>

\* for _, c := range m { if c == nil { continue }; c.getBandWidth(cycle) is called
SRangeClient ==
    /\ spc = "s_range"
    /\ \E u \in todoC :
          /\ todoC' = todoC \ {u}
          /\ IF clients[curS][u] = Nil
             THEN UNCHANGED <<spc, curC>>
             ELSE /\ curC' = clients[curS][u]
                  /\ spc' = "s_call"
    /\ UNCHANGED <<regVars, procVars, histVars, cancelled, n, totalRecvBW,
                   totalSendBW, todoS, curS, report>>
    /\ UNCHANGED <<stats, ended, got>>

\* A variant of SGetBandWidth that adds the received sample to both totals.
SGetBandWidthMixed ==
    /\ spc = "s_call"
    /\ \E b \in SampleSet :
          /\ totalRecvBW' = totalRecvBW + b[1]
          /\ totalSendBW' = totalSendBW + b[1]
          /\ sampled' = [sampled EXCEPT ![curC] = Append(@, <<Cycle, b[1], b[2]>>)]
    /\ curC' = Nil
    /\ spc' = "s_range"
    /\ UNCHANGED <<regVars, procVars, cancelled, n, todoS, curS, todoC, report,
                   owed, prev, shadow, view>>
    /\ UNCHANGED <<stats, ended, got>>

\* recvBW, sendBW := c.getBandWidth(cycle) returns;
\* totalRecvBW += recvBW; totalSendBW += sendBW
SGetBandWidth ==
    /\ spc = "s_call"
    /\ \E b \in SampleSet :
          /\ totalRecvBW' = totalRecvBW + b[1]
          /\ totalSendBW' = totalSendBW + b[2]
          /\ sampled' = [sampled EXCEPT ![curC] = Append(@, <<Cycle, b[1], b[2]>>)]
    /\ curC' = Nil
    /\ spc' = "s_range"
    /\ UNCHANGED <<regVars, procVars, cancelled, n, todoS, curS, todoC, report,
                   owed, prev, shadow, view>>
    /\ UNCHANGED <<stats, ended, got>>

\* both ranges are exhausted: info += fmt.Sprintf(...) with the two totals
\* (the count was formatted into info right after the first loop)
SFormat ==
    /\ spc = "s_range"
    /\ todoC = {}
    /\ todoS = {}
    /\ report' = [clients |-> n, recv |-> totalRecvBW, send |-> totalSendBW]
    /\ spc' = "s_runlock"
    /\ UNCHANGED <<regVars, procVars, histVars, cancelled, n, totalRecvBW,
                   totalSendBW, todoS, curS, todoC, curC>>
    /\ UNCHANGED <<stats, ended, got>>

\* e.RUnlock(); log.Infof(info): the report is emitted; info, n and the
\* totals are not read again
SRUnlock ==
    /\ spc = "s_runlock"
    /\ readers' = readers - 1
    /\ n' = 0
    /\ totalRecvBW' = 0
    /\ totalSendBW' = 0
    /\ curS' = "none"
    /\ report' = NoReport
    /\ view' = EmptyMap
    /\ sampled' = NoSamples
    /\ spc' = "s_sleep"
    /\ UNCHANGED <<clients, writer, procVars, cancelled, todoS, todoC, curC,
                   owed, prev, shadow>>
    /\ UNCHANGED <<stats, ended, got>>

\* A variant of SSleep that returns from Stats when the signal comes during
\* the sleep.
SSleepInterruptible ==
    /\ spc = "s_sleep"
    /\ spc' = IF cancelled THEN "s_done" ELSE "s_select"
    /\ UNCHANGED <<regVars, procVars, histVars, cancelled, n, totalRecvBW,
                   totalSendBW, todoS, curS, todoC, curC, report>>
    /\ ended' = "cycle"
    /\ UNCHANGED <<stats, got>>

\* time.Sleep(time.Duration(cycle) * time.Second) returns
SSleep ==
    /\ spc = "s_sleep"
    /\ spc' = "s_select"
    /\ UNCHANGED <<regVars, procVars, histVars, cancelled, n, totalRecvBW,
                   totalSendBW, todoS, curS, todoC, curC, report>>
    /\ ended' = "cycle"
    /\ UNCHANGED <<stats, got>>

\* ------------------------------------------------------------ specification
Caller(p) ==
    \/ ALock(p) \/ ACheck(p) \/ AStore(p) \/ ADefer(p)
    \/ DLock(p) \/ DCheck(p) \/ DLookup(p) \/ DUnlock(p) \/ DClose(p)
    \/ RmLock(p) \/ RmCheck(p) \/ RmLookup(p) \/ RmDefer(p)
    \/ GetStat(p)

StatsStep ==
    \/ SSelect \/ SRLock \/ SEmpty \/ SCount \/ SRangeSession \/ SRangeClient
    \/ SGetBandWidth \/ SFormat \/ SRUnlock \/ SSleep

Next ==
    \/ \E p \in Procs : Caller(p)
    \/ StatsStep
    \/ Cancel

Spec == Init /\ [][Next]_vars

\* Scheduling: every goroutine that can run does run; a reader blocked in
\* RLock is admitted when the writer unlocks (sync.RWMutex wakes the waiting
\* readers before the next writer), hence strong fairness for SRLock.
CallerProgress(p) ==
    \/ ACheck(p) \/ AStore(p) \/ ADefer(p)
    \/ DCheck(p) \/ DLookup(p) \/ DUnlock(p) \/ DClose(p)
    \/ RmCheck(p) \/ RmLookup(p) \/ RmDefer(p)

FairSpec ==
    /\ Spec
    /\ WF_vars(StatsStep)
    /\ SF_vars(SRLock)
    /\ \A p \in Procs : WF_vars(CallerProgress(p))

\* ------------------------------------------------------------------ claims
\* Callers that removed h in DelClient and have not finished its Close yet.
Closers(h) == {p \in Procs : pc[p] \in {"d_unlock", "d_close"} /\ found[p] = h}

\* The keys the registry holds.
PresentKeys == {k \in Keys : shadow[k] # Nil}

\* C1: every removal of a stored client by DelClient is followed by exactly
\* one Close of that client, made by the caller that removed it, and no Close
\* is made without a removal: the Close calls still owed on a handle are
\* exactly the callers between their delete and the end of their Close; the
\* caller that took the lock first has removed the entry before it unlocks.
C1_TeardownExactlyOnce ==
    /\ \A h \in Handles : owed[h] = Cardinality(Closers(h))
    /\ \A p \in Procs :
          pc[p] \in {"d_unlock", "d_close"} => found[p] \in Handles
    /\ \A p \in Procs :
          pc[p] = "d_unlock" => Lookup(clients, SidOf[found[p]], UidOf[found[p]]) = Nil

\* Two DelClient calls on the key of c1 overlap: the first removed c1 and is
\* in its Close, the second holds the lock and will find the key empty.
C1_Witness ==
    \E p, q \in Procs :
       /\ p # q
       /\ pc[p] = "d_close" /\ found[p] = "c1" /\ owed["c1"] = 1
       /\ pc[q] = "d_lookup" /\ arg[q] \in {"c1", "c4"}
       /\ Lookup(clients, "A", "u1") = Nil

\* C2: a caller that is executing Close in DelClient does not hold the
\* exclusive lock.
C2_CloseOutsideLock ==
    \A p \in Procs : pc[p] = "d_close" => writer # p

\* A caller is in Close while the other caller holds the exclusive lock.
C2_Witness ==
    \E p, q \in Procs : p # q /\ pc[p] = "d_close" /\ writer = q

\* C3: while a getBandWidth call of Stats is executing, the goroutine that
\* runs Stats holds no lock of the registry.
C3_NoLockWhileSampling ==
    spc = "s_call" => readers = 0

\* C4: DelClient and RemoveClient on a session the registry does not hold
\* return errInvalidSessID, change neither the map nor the teardowns owed, and
\* release the lock: no caller that has returned holds it.
C4_UnknownSession ==
    /\ [][\A p \in Procs :
            (/\ pc[p] \in {"d_check", "r_check"}
             /\ NoSession(clients, SidOf[arg[p]])
             /\ pc'[p] # pc[p])
            => /\ clients' = clients
               /\ owed' = owed
               /\ \/ pc'[p] = "idle" /\ ret'[p] = "errInvalidSessID" /\ writer' = NoProc
                  \/ pc'[p] = "r_defer" /\ ret'[p] = "errInvalidSessID"]_vars
    /\ [][\A p \in Procs :
            (pc[p] = "r_defer" /\ pc'[p] # pc[p])
            => /\ clients' = clients
               /\ owed' = owed
               /\ pc'[p] = "idle" /\ ret'[p] = ret[p] /\ writer' = NoProc]_vars
    /\ [](\A p \in Procs : pc[p] = "idle" => writer # p)

\* Both removers have returned errInvalidSessID for session B, the lock is
\* free and the registry still holds exactly what it held.
C4_Witness ==
    \E p, q \in Procs :
       /\ pc[p] = "idle" /\ op[p] = "Del" /\ ret[p] = "errInvalidSessID"
       /\ pc[q] = "idle" /\ op[q] = "Remove" /\ ret[q] = "errInvalidSessID"
       /\ writer = NoProc
       /\ DOMAIN clients = {"A"}
       /\ Lookup(clients, "A", "u1") = "c1"

\* C5: AddClient with a nil client returns the "client is nil" error and has
\* stored nothing.
C5_NilClientRejected ==
    \A p \in Procs :
       (pc[p] = "a_defer" /\ arg[p] = Nil)
       => /\ ret[p] = "errNil"
          /\ \A k \in Keys : Lookup(clients, k[1], k[2]) = shadow[k]

\* C6: the sum of the inner map sizes, as Stats computes it, is the number
\* of keys present, and so is n once Stats has counted; it is never negative.
C6_CountIsPresentKeys ==
    /\ TotalClients(clients) = Cardinality(PresentKeys)
    /\ TotalClients(clients) >= 0
    /\ spc \in {"s_range", "s_call", "s_runlock"} => n = Cardinality(PresentKeys)

\* A key was added a second time and another key was removed: two keys
\* count, the emptied session B counts zero, and Stats has counted 2.
C6_Witness ==
    /\ spc = "s_range"
    /\ n = 2
    /\ shadow[<<"A", "u1">>] = "c4"
    /\ shadow[<<"A", "u2">>] = "c2"
    /\ "B" \in DOMAIN clients /\ DOMAIN clients["B"] = {}

\* A step of caller p inside AddClient.
AddStep(p) ==
    \/ pc[p] \in {"a_check", "a_store", "a_defer"} /\ pc'[p] # pc[p]
    \/ pc[p] = "idle" /\ pc'[p] = "a_check"

\* C7: no step of AddClient invokes a teardown, and its store leaves the
\* argument under the key, whatever the key held before.
C7_AddNeverCloses ==
    [][\A p \in Procs :
         AddStep(p)
         => /\ owed' = owed
            /\ \A q \in Procs : pc'[q] = "d_close" => pc[q] \in {"d_unlock", "d_close"}
            /\ pc[p] = "a_store"
               => Lookup(clients', SidOf[arg[p]], UidOf[arg[p]]) = arg[p]]_vars

\* AddClient(c4) has just overwritten c1: the key holds c4 and no Close of
\* c1 is owed or under way.
C7_Witness ==
    \E p \in Procs :
       /\ pc[p] = "a_defer" /\ arg[p] = "c4" /\ prev[p] = "c1"
       /\ Lookup(clients, "A", "u1") = "c4"
       /\ owed["c1"] = 0 /\ Closers("c1") = {}

\* C8: every key holds what the last call on it put there (nothing is lost
\* when an inner map is created), and an AddClient of a non-nil client
\* returns nil with its client stored.
C8_NoLostAdd ==
    /\ \A k \in Keys : Lookup(clients, k[1], k[2]) = shadow[k]
    /\ \A p \in Procs :
          (pc[p] = "a_defer" /\ arg[p] # Nil)
          => /\ ret[p] = "nil"
             /\ Lookup(clients, SidOf[arg[p]], UidOf[arg[p]]) = arg[p]
    /\ \A p \in Procs :
          (pc[p] = "idle" /\ op[p] = "Add") => ret[p] \in {"nil", "panic"}

\* Three adds with distinct keys, two of them in session A, have all
\* succeeded and all three clients are stored.
C8_Witness ==
    \E p, q \in Procs :
       /\ p # q
       /\ pc[p] = "a_defer" /\ arg[p] = "c2" /\ ret[p] = "nil" /\ prev[p] = Nil
       /\ pc[q] = "idle" /\ op[q] = "Add" /\ ret[q] = "nil"
       /\ Lookup(clients, "A", "u1") = "c1"
       /\ Lookup(clients, "A", "u2") = "c2"
       /\ Lookup(clients, "B", "u1") = "c3"

\* The entries of a registry content, as (session, uid) pairs.
Entries(m) == {k \in Keys : k[1] \in DOMAIN m /\ k[2] \in DOMAIN m[k[1]]}

\* The non-nil clients of a registry content.
ClientsOf(m) == {m[k[1]][k[2]] : k \in Entries(m)} \ {Nil}

RECURSIVE SumField(_, _, _)
SumField(f, S, i) ==
    IF S = {} THEN 0
    ELSE LET h == CHOOSE x \in S : TRUE
         IN f[h][1][i] + SumField(f, S \ {h}, i)

\* C9: the report of a cycle over a registry with at least one session
\* carries the number of entries, the sum of the received samples and the sum
\* of the sent samples; every stored client was sampled exactly once, with the
\* cycle length as interval, and no other client was sampled.
C9_ReportIsSum ==
    spc = "s_runlock"
    => /\ DOMAIN view # {}
       /\ clients = view
       /\ \A h \in Handles :
             /\ Len(sampled[h]) = IF h \in ClientsOf(view) THEN 1 ELSE 0
             /\ Len(sampled[h]) = 1 => sampled[h][1][1] = Cycle
       /\ report.clients = Cardinality(Entries(view))
       /\ report.recv = SumField(sampled, ClientsOf(view), 2)
       /\ report.send = SumField(sampled, ClientsOf(view), 3)

\* The cycle over {A: {c1, c2}, B: {c3}} with samples (10,5), (20,15), (0,0)
\* reports 3 clients, 30 received and 20 sent.
C9_Witness ==
    /\ spc = "s_runlock"
    /\ sampled["c1"] = << <<Cycle, 10, 5>> >>
    /\ sampled["c2"] = << <<Cycle, 20, 15>> >>
    /\ sampled["c3"] = << <<Cycle, 0, 0>> >>
    /\ report = [clients |-> 3, recv |-> 30, send |-> 20]

\* C10: once the signal is raised Stats eventually returns, and from then
\* on no check of the signal takes the default branch: only the iteration that
\* had already passed the check runs to its end.
C10_CancelStops ==
    /\ [][(cancelled /\ spc = "s_select") => spc' \in {"s_select", "s_done"}]_vars
    /\ (cancelled ~> (spc = "s_done"))

\* Stats has returned after the signal while a caller is inside a mutator.
C10_Witness ==
    /\ cancelled
    /\ spc = "s_done"
    /\ \E p \in Procs : pc[p] = "a_store"
    /\ DOMAIN clients # {}

\* C11: an iteration of Stats that finds no session emits no report,
\* samples no client, releases the read lock and goes back to the check of the
\* signal without sleeping; the step is always possible.
C11_EmptySkips ==
    /\ [][(spc = "s_empty" /\ DOMAIN clients = {} /\ spc' # spc)
            => /\ spc' = "s_select"
               /\ readers' = 0
               /\ report = NoReport /\ report' = NoReport
               /\ sampled' = NoSamples
               /\ curC' = Nil]_vars
    /\ [](ended = "skip"
            => spc = "s_select" /\ readers = 0 /\ report = NoReport /\ sampled = NoSamples)
    /\ [](spc = "s_empty" => ENABLED SEmpty)

\* Stats has skipped an iteration and a mutator has taken the lock it released.
C11_Witness ==
    /\ ended = "skip"
    /\ spc = "s_select"
    /\ \E p \in Procs : writer = p /\ pc[p] = "a_check"

\* C12: the snapshot GetStat returns is the report Stats emitted last: when
\* Stats emits a report the snapshot becomes that report, it changes at no
\* other step, and GetStat returns the snapshot.
C12_GetStatIsLastReport ==
    /\ [][(spc = "s_runlock" /\ spc' = "s_sleep") => stats' = report]_vars
    /\ [][stats' # stats => (spc = "s_runlock" /\ spc' = "s_sleep")]_vars
    /\ [][\A p \in Procs :
            (op[p] # "GetStat" /\ op'[p] = "GetStat") => got'[p] = stats']_vars

\* A step of caller p that ends the deferred unlock of RemoveClient.
RmDeferStep(p) == pc[p] = "r_defer" /\ pc'[p] # pc[p]

\* C13: DelClient and RemoveClient on a known session that does not hold the
\* client return nil, change neither the map nor the teardowns owed, and
\* release the lock.
C13_UnknownClient ==
    /\ [][\A p \in Procs :
            (/\ pc[p] \in {"d_lookup", "r_lookup"}
             /\ Lookup(clients, SidOf[arg[p]], UidOf[arg[p]]) = Nil
             /\ pc'[p] # pc[p])
            => /\ clients' = clients
               /\ owed' = owed
               /\ \/ pc'[p] = "idle" /\ ret'[p] = "nil" /\ writer' = NoProc
                  \/ pc'[p] = "r_defer" /\ ret'[p] = "nil" /\ found'[p] = Nil]_vars
    /\ [][\A p \in Procs :
            RmDeferStep(p)
            => /\ clients' = clients
               /\ owed' = owed
               /\ pc'[p] = "idle" /\ ret'[p] = ret[p] /\ writer' = NoProc]_vars
    /\ [](\A p \in Procs :
            /\ pc[p] \in {"d_lookup", "r_lookup"} => ~NoSession(clients, SidOf[arg[p]])
            /\ pc[p] = "idle" => writer # p)

\* RemoveClient(c2) found session A without c2 and is returning nil; a
\* DelClient has returned nil; c1 is still stored and no Close is owed.
C13_Witness ==
    \E p, q \in Procs :
       /\ pc[p] = "r_defer" /\ arg[p] = "c2" /\ found[p] = Nil /\ ret[p] = "nil"
       /\ pc[q] = "idle" /\ op[q] = "Del" /\ ret[q] = "nil"
       /\ DOMAIN clients = {"A"}
       /\ DOMAIN clients["A"] = {"u1"}
       /\ clients["A"]["u1"] = "c1"
       /\ \A h \in Handles : owed[h] = 0

\* What a removal of c's key is to return from registry content m.
RemovalRet(m, c) == IF SidOf[c] \in DOMAIN m THEN "nil" ELSE "errInvalidSessID"

\* What a removal of c's key is to leave of registry content m.
RemovalMap(m, c) ==
    [s \in DOMAIN m |->
        [u \in {x \in DOMAIN m[s] : <<s, x>> # KeyOf(c)} |-> m[s][u]]]

\* A step of caller p at one of the positions in P.
StepAt(p, P) == pc[p] \in P /\ pc'[p] # pc[p]

\* C14: from the same registry content and with the same argument,
\* DelClient and RemoveClient return the same value and leave the same map:
\* both realise RemovalRet and RemovalMap, step by step; no step of
\* RemoveClient invokes or owes a teardown.
C14_RemoveLikeDel ==
    [][\A p \in Procs :
         /\ StepAt(p, {"d_check", "r_check"})
            => /\ clients' = clients
               /\ IF NoSession(clients, SidOf[arg[p]])
                  THEN /\ ret'[p] = RemovalRet(clients, arg[p])
                       /\ clients = RemovalMap(clients, arg[p])
                       /\ pc'[p] \in {"idle", "r_defer"}
                  ELSE pc'[p] \in {"d_lookup", "r_lookup"}
         /\ StepAt(p, {"d_lookup", "r_lookup"})
            => /\ clients' = RemovalMap(clients, arg[p])
               /\ pc'[p] \in {"idle", "r_defer"} => ret'[p] = RemovalRet(clients, arg[p])
               /\ pc'[p] \in {"idle", "r_defer", "d_unlock"}
         /\ StepAt(p, {"d_unlock", "d_close", "r_defer"})
            => /\ clients' = clients
               /\ pc[p] = "d_close" => ret'[p] = "nil"
               /\ pc[p] = "r_defer" => ret'[p] = ret[p]
         /\ StepAt(p, {"r_check", "r_lookup", "r_defer"})
            => /\ owed' = owed
               /\ pc'[p] \notin {"d_unlock", "d_close"}]_vars

\* RemoveClient(c1) has removed c1 and is returning nil with no Close owed,
\* while a DelClient(c2) has removed c2 and is in its Close.
C14_Witness ==
    \E p, q \in Procs :
       /\ pc[p] = "r_defer" /\ arg[p] = "c1" /\ found[p] = "c1" /\ ret[p] = "nil"
       /\ owed["c1"] = 0
       /\ pc[q] = "d_close" /\ arg[q] = "c2" /\ found[q] = "c2" /\ owed["c2"] = 1
       /\ DOMAIN clients = {"A"} /\ DOMAIN clients["A"] = {}

\* C15: no step removes a session key; a key appears only in an AddClient
\* of a non-nil client of that session, whose store follows; a session that
\* exists, empty or not, is not reported as unknown to DelClient/RemoveClient.
C15_SessionsStay ==
    /\ [][DOMAIN clients \subseteq DOMAIN clients']_vars
    /\ [][DOMAIN clients' # DOMAIN clients
            => \E p \in Procs :
                  /\ pc[p] = "a_check" /\ arg[p] # Nil /\ pc'[p] = "a_store"
                  /\ DOMAIN clients' = DOMAIN clients \cup {SidOf[arg[p]]}]_vars
    /\ [](\A p \in Procs :
            (pc[p] = "a_defer" /\ arg[p] # Nil) => SidOf[arg[p]] \in DOMAIN clients)
    /\ [][\A p \in Procs :
            (StepAt(p, {"d_check", "r_check"}) /\ SidOf[arg[p]] \in DOMAIN clients)
            => pc'[p] \in {"d_lookup", "r_lookup"} /\ ret'[p] = "none"]_vars

\* Session A has lost its last client and is still a key; a DelClient on it
\* has returned nil and a RemoveClient on it has passed the session check.
C15_Witness ==
    \E p, q \in Procs :
       /\ DOMAIN clients = {"A"} /\ DOMAIN clients["A"] = {}
       /\ pc[p] = "r_lookup" /\ SidOf[arg[p]] = "A"
       /\ pc[q] = "idle" /\ op[q] = "Del" /\ ret[q] = "nil"

\* The positions of Stats inside a cycle over a non-empty registry.
CyclePcs == {"s_count", "s_range", "s_call", "s_runlock", "s_sleep"}

\* C16: Stats returns only from the check at the start of an iteration,
\* which it makes once per iteration; a cycle that has begun is left only
\* through the end of its sleep, after every stored client was sampled and the
\* report was built, and under fair scheduling it does get there, whether or
\* not the signal is raised meanwhile.
C16_NonPreemptive ==
    /\ [][spc' = "s_done" => (spc = "s_done" \/ (spc = "s_select" /\ cancelled))]_vars
    /\ [][(spc = "s_select" /\ spc' # spc /\ ~cancelled) => spc' = "s_rlock"]_vars
    /\ [][(spc # "s_select" /\ spc' = "s_select")
            => \/ spc = "s_sleep" /\ ended' = "cycle"
               \/ spc = "s_empty" /\ DOMAIN clients = {}]_vars
    /\ [][(spc \in CyclePcs /\ spc' \notin CyclePcs)
            => spc = "s_sleep" /\ spc' = "s_select"]_vars
    /\ [][(spc = "s_range" /\ spc' = "s_runlock")
            => \A h \in Handles :
                  Len(sampled[h]) = IF h \in ClientsOf(view) THEN 1 ELSE 0]_vars
    /\ [][(spc = "s_runlock" /\ spc' # spc) => (report # NoReport /\ spc' = "s_sleep")]_vars
    /\ (spc = "s_count" ~> ended = "cycle")

\* The signal is up and Stats is in the sleep of the cycle it had begun.
C16_Witness ==
    /\ cancelled
    /\ spc = "s_sleep"
    /\ readers = 0

\* The positions at which a caller holds the exclusive lock.
HoldsPcs == {"a_check", "a_store", "a_defer", "d_check", "d_lookup", "d_unlock",
             "r_check", "r_lookup", "r_defer"}

\* The positions at which Stats holds the read lock.
ReadPcs == {"s_empty", "s_count", "s_range", "s_call", "s_runlock"}

RECURSIVE NumSamples(_, _)
\* The number of samples taken of the clients in S.
NumSamples(f, S) ==
    IF S = {} THEN 0
    ELSE LET h == CHOOSE x \in S : TRUE
         IN Len(f[h]) + NumSamples(f, S \ {h})

\* C18: from the counting pass to the end of the sampling pass the
\* registry is the one Stats locked, no caller holds the lock and no step
\* changes the map; the count is the number of its entries, and the report's
\* count is the number of samples that went into its totals.
C18_OneRegistryState ==
    /\ [](spc \in ReadPcs => (clients = view /\ writer = NoProc))
    /\ [][(spc = "s_count" \/ spc = "s_range" \/ spc = "s_call")
            => (clients' = clients /\ shadow' = shadow)]_vars
    /\ [](spc \in {"s_range", "s_call", "s_runlock"} => n = Cardinality(Entries(view)))
    /\ [](spc \in {"s_range", "s_call"} => NumSamples(sampled, Handles) <= n)
    /\ [](spc = "s_runlock"
            => /\ report.clients = NumSamples(sampled, Handles)
               /\ report.clients = Cardinality(Entries(clients)))

\* A cycle over two entries is sampling while a DelClient that removed its
\* client before the cycle is in its Close, outside the lock.
C18_Witness ==
    /\ spc = "s_call"
    /\ n = 2
    /\ NumSamples(sampled, Handles) = 1
    /\ \E p \in Procs : pc[p] = "d_close"

\* C19: DelClient removes and closes the client stored under its
\* argument's key: the client it goes on to close is the stored one, which
\* leaves the map, and its Close is the only teardown the call makes.
C19_ClosesStored ==
    /\ [][\A p \in Procs :
            (StepAt(p, {"d_lookup"}) /\ pc'[p] = "d_unlock")
            => LET stored == Lookup(clients, SidOf[arg[p]], UidOf[arg[p]])
               IN /\ stored # Nil
                  /\ found'[p] = stored
                  /\ Lookup(clients', SidOf[arg[p]], UidOf[arg[p]]) = Nil
                  /\ owed' = [owed EXCEPT ![stored] = @ + 1]]_vars
    /\ [][\A p \in Procs :
            StepAt(p, {"d_close"})
            => owed' = [owed EXCEPT ![found[p]] = @ - 1]]_vars
    /\ [](\A p \in Procs :
            pc[p] \in {"d_unlock", "d_close"}
            => found[p] # Nil /\ KeyOf(found[p]) = KeyOf(arg[p]))
    /\ [](\A p \in Procs :
            (pc[p] \in {"d_unlock", "d_close"} /\ arg[p] # found[p])
            => owed[arg[p]] <= IF \E q \in Procs \ {p} :
                                     pc[q] \in {"d_unlock", "d_close"} /\ found[q] = arg[p]
                                  THEN 1 ELSE 0)

\* DelClient(c4) found c1 stored under c4's key: c1 is out of the map and is
\* the one about to be closed; nothing is owed to c4.
C19_Witness ==
    \E p \in Procs :
       /\ pc[p] = "d_close"
       /\ arg[p] = "c4"
       /\ found[p] = "c1"
       /\ owed["c1"] = 1
       /\ owed["c4"] = 0
       /\ Lookup(clients, "A", "u1") = Nil

\* C20: Stats skips only when the registry has no session key: with a
\* session key present it goes on to count, keeping the read lock, even when
\* no session holds a client; the report of such a cycle is (0, 0, 0), no
\* client is sampled, and the sleep follows.
C20_SkipBySessions ==
    /\ [][(spc = "s_empty" /\ spc' # spc /\ DOMAIN clients # {})
            => (spc' = "s_count" /\ readers' = readers /\ ended' # "skip")]_vars
    /\ [][(ended' = "skip" /\ ended # "skip") => DOMAIN clients = {}]_vars
    /\ [](spc \in {"s_count", "s_range", "s_call", "s_runlock"} => DOMAIN clients # {})
    /\ []((spc = "s_runlock" /\ Entries(clients) = {})
            => /\ report = [clients |-> 0, recv |-> 0, send |-> 0]
               /\ sampled = NoSamples)
    /\ [][(spc = "s_runlock" /\ spc' # spc) => spc' = "s_sleep"]_vars

\* Sessions A and B are keys with no client left; the cycle has built the
\* report (0, 0, 0).
C20_Witness ==
    /\ spc = "s_runlock"
    /\ DOMAIN clients = {"A", "B"}
    /\ Entries(clients) = {}
    /\ report = [clients |-> 0, recv |-> 0, send |-> 0]

====
